---- MODULE Spec2Model ----
(***************************************************************************)
(* Model of src/EventListener/Event.h: the class template Event<Types...>  *)
(* and its specialization Event<>.  One object is modelled; cls says which *)
(* of the two classes it is an instance of.                                *)
(*                                                                         *)
(* Program state: _listeners (the std::vector<Listener>) and, while a     *)
(* Trigger call is on the stack, the position of its range-for loop.       *)
(* History variables (not program state): each Listener's reg stamp, regs, *)
(* pristine, last, atTrigger, log, outcome.  They describe the calls made  *)
(* by the owner of the channel, not those a callback makes.                *)
(***************************************************************************)
EXTENDS Integers, Sequences, FiniteSets, TLC

VARIABLES
    cls,         \* "Event" (Event<Types...>, Types non-empty) or "Event<>"
    _listeners,  \* std::vector<Listener> _listeners
    pc,          \* "idle", or "Trigger" while a Trigger call is running
    it,          \* range-for iterator of the running Trigger (1-based index)
    endIt,       \* end iterator the range-for captured when it began
    moved,       \* the vector reallocated its storage since the range-for began
    args,        \* the argument of the current / most recent Trigger
    log,         \* history: invocations made by the current / most recent Trigger
    outcome,     \* history: how the most recent Trigger ended
    atTrigger,   \* history: _listeners when the current / most recent Trigger began
    last,        \* history: the most recent mutating call and _listeners before it
    regs,        \* history: the AddListener calls made since the last removal call
    pristine,    \* history: no removal call was made since construction
    nextReg      \* history: stamp given to the next registration

vars == <<cls, _listeners, pc, it, endIt, moved, args, log, outcome,
          atTrigger, last, regs, pristine, nextReg>>

----------------------------------------------------------------------------
(* Bounds and inputs *)

\* AddListener calls in one behaviour
MaxRegs == 3

NULL == "nullptr"
\* the empty argument list, seen by a callee that takes no parameters
NoArg == <<>>

\* Types... is one int; the argument lists Trigger is called with
ArgValues == {<<42>>, <<7>>}

\* objects whose methods are registered: objB is a Widget, objA a Panel, a
\* class derived from Widget and from Logger
Instances == {"objA", "objB"}

\* free functions void(Types...) and void()
ExactFunctions == {"OnValue"}
DiscardFunctions == {"LogA", "LogB"}

\* methods void(T::*)(Types...) and void(T::*)()
ExactMethods == {"OnEvent", "OnOther"}
DiscardMethods == {"OnPing"}

Functions == ExactFunctions \cup DiscardFunctions
Methods == ExactMethods \cup DiscardMethods

\* OnEvent and OnPing are Widget's methods, OnOther is Logger's
MethodsOf(instance) ==
    IF instance = "objA" THEN {"OnEvent", "OnOther", "OnPing"}
                         ELSE {"OnEvent", "OnPing"}

\* The value of a function pointer: the address of the function's code.
\* LogB and T::OnPing have identical bodies and the linker folded them to
\* one address.
FunctionAddress(function) ==
    CASE function = "OnValue" -> 16
      [] function = "LogA"    -> 32
      [] function = "LogB"    -> 48

\* The representation of a pointer to member function: <<ptr, adj>>.
\* OnEvent and OnOther are the first virtual function of Widget and of Logger:
\* the same ptr word (1 + vtable offset), different this-adjustments.
\* OnPing is not virtual: ptr is the address of its code.
MemberPointer(function) ==
    CASE function = "OnEvent" -> <<1, 0>>
      [] function = "OnOther" -> <<1, 8>>
      [] function = "OnPing"  -> <<48, 0>>

----------------------------------------------------------------------------
(* Pointer conversions *)

\* reinterpret_cast<void*>(function)
FunctionToVoidPtr(function) == FunctionAddress(function)

\* *reinterpret_cast<void**>(&function): the first pointer-sized word of the
\* member-function pointer
MethodToVoidPtr(function) == MemberPointer(function)[1]

\* static conversion of T* to void*
InstanceToVoidPtr(instance) == instance

----------------------------------------------------------------------------
(* Listener records and callbacks *)

\* the std::function stored in a Listener: what it closes over, and whether
\* it hands the arguments it is called with to the callee
Closure(instance, function, forward) ==
    [instance |-> instance, function |-> function, forward |-> forward]

\* struct Listener { void* instancePtr; void* functionPtr; Callback callback; }
\* reg is the history stamp of the registration
Listener(instancePtr, functionPtr, callback, reg) ==
    [instancePtr |-> instancePtr, functionPtr |-> functionPtr,
     callback |-> callback, reg |-> reg]

\* variant: the discarding lambdas hand their arguments on
InvokeForwarding(callback, a) ==
    [instance |-> callback.instance, function |-> callback.function,
     arg |-> a]

\* listener.callback(args...): the call the callee receives
Invoke(callback, a) ==
    [instance |-> callback.instance, function |-> callback.function,
     arg |-> IF callback.forward THEN a ELSE NoArg]

\* variant: insert at begin() instead of push_back
PushFront(ls, l) == <<l>> \o ls

\* variant: push_back skipped when an entry with the same two pointers exists
PushBackUnique(ls, l) ==
    IF \E i \in 1..Len(ls) : /\ ls[i].instancePtr = l.instancePtr
                             /\ ls[i].functionPtr = l.functionPtr
    THEN ls ELSE Append(ls, l)

\* variant: back() is overwritten instead of a new element being appended
PushBackOver(ls, l) ==
    IF ls = <<>> THEN <<l>> ELSE [ls EXCEPT ![Len(ls)] = l]

\* _listeners.push_back(l)
PushBack(ls, l) == Append(ls, l)

\* the predicate of the free-function RemoveListener overloads
MatchFunction(listener, functionPtr) ==
    listener.functionPtr = functionPtr

\* variant: the instance is not compared
MatchMethodAnyOwner(listener, instance, functionPtr) ==
    listener.functionPtr = functionPtr

\* the predicate of the method RemoveListener overloads
MatchMethod(listener, instance, functionPtr) ==
    listener.instancePtr = instance /\ listener.functionPtr = functionPtr

\* index of the first element of ls in the set hit, 0 when there is none
FirstIn(ls, hit) ==
    IF \E i \in 1..Len(ls) : ls[i] \in hit
    THEN CHOOSE i \in 1..Len(ls) :
             ls[i] \in hit /\ \A j \in 1..(i - 1) : ls[j] \notin hit
    ELSE 0

\* ls without its element at index i (i = 0: ls)
DropAt(ls, i) ==
    IF i = 0 THEN ls ELSE SubSeq(ls, 1, i - 1) \o SubSeq(ls, i + 1, Len(ls))

\* unordered erase: each hit is overwritten by back() and the vector popped
RECURSIVE SwapErase(_, _)
SwapErase(ls, hit) ==
    LET i == FirstIn(ls, hit)
    IN  IF i = 0 THEN ls
        ELSE SwapErase(SubSeq([ls EXCEPT ![i] = ls[Len(ls)]], 1, Len(ls) - 1), hit)

\* variant: erase(std::find_if(...)), only the first match goes
EraseFirstFunction(ls, functionPtr) ==
    DropAt(ls, FirstIn(ls, {l \in {ls[i] : i \in 1..Len(ls)} :
                               MatchFunction(l, functionPtr)}))

\* variant: swap-and-pop instead of erase(remove_if)
EraseFunctionSwap(ls, functionPtr) ==
    SwapErase(ls, {l \in {ls[i] : i \in 1..Len(ls)} :
                      MatchFunction(l, functionPtr)})

\* variant: erase(std::find_if(...)), only the first match goes
EraseFirstMethod(ls, instance, functionPtr) ==
    DropAt(ls, FirstIn(ls, {l \in {ls[i] : i \in 1..Len(ls)} :
                               MatchMethod(l, instance, functionPtr)}))

\* _listeners.erase(std::remove_if(begin, end, MatchFunction), end)
EraseFunction(ls, functionPtr) ==
    SelectSeq(ls, LAMBDA l : ~MatchFunction(l, functionPtr))

\* _listeners.erase(std::remove_if(begin, end, MatchMethod), end)
EraseMethod(ls, instance, functionPtr) ==
    SelectSeq(ls, LAMBDA l : ~MatchMethod(l, instance, functionPtr))

\* variant: pop_back() instead of clear()
ClearLast(ls) == SubSeq(ls, 1, Len(ls) - 1)

\* _listeners.clear()
Clear(ls) == <<>>

----------------------------------------------------------------------------
(* History bookkeeping *)

NoCall == [op |-> "none", instance |-> NULL, function |-> NULL, before |-> <<>>]

Call(op, instance, function) ==
    [op |-> op, instance |-> instance, function |-> function,
     before |-> _listeners]

\* what an AddListener call asked for
Registration(instance, function, forward) ==
    [instance |-> instance, function |-> function, forward |-> forward]

\* a mutating call forgets the record of the previous Trigger
ForgetTrigger ==
    /\ pc' = "idle"
    /\ it' = 0
    /\ endIt' = 0
    /\ moved' = FALSE
    /\ args' = NoArg
    /\ log' = <<>>
    /\ outcome' = "none"
    /\ atTrigger' = <<>>

Added(instance, function, forward) ==
    /\ last' = Call("AddListener", instance, function)
    /\ regs' = Append(regs, Registration(instance, function, forward))
    /\ nextReg' = nextReg + 1
    /\ UNCHANGED <<cls, pristine>>
    /\ ForgetTrigger

Removed(op, instance, function) ==
    /\ last' = Call(op, instance, function)
    /\ regs' = <<>>
    /\ pristine' = FALSE
    /\ UNCHANGED <<cls, nextReg>>
    /\ ForgetTrigger

----------------------------------------------------------------------------
(* The Listener each overload builds *)

\* Event: { nullptr, reinterpret_cast<void*>(function), function }
FunctionListener(function, reg) ==
    Listener(NULL, FunctionToVoidPtr(function),
             Closure(NULL, function, TRUE), reg)

\* Event: { nullptr, reinterpret_cast<void*>(function),
\*          [function](Types...) { function(); } }
NoArgsFunctionListener(function, reg) ==
    Listener(NULL, FunctionToVoidPtr(function),
             Closure(NULL, function, FALSE), reg)

\* Event: { instance, *reinterpret_cast<void**>(&function),
\*          [instance, function](Types... args) { (instance->*function)(args...); } }
MethodListener(instance, function, reg) ==
    Listener(InstanceToVoidPtr(instance), MethodToVoidPtr(function),
             Closure(instance, function, TRUE), reg)

\* Event: { instance, *reinterpret_cast<void**>(&function),
\*          [instance, function](Types... args) { (instance->*function)(); } }
NoArgsMethodListener(instance, function, reg) ==
    Listener(InstanceToVoidPtr(instance), MethodToVoidPtr(function),
             Closure(instance, function, FALSE), reg)

\* Event<>: { nullptr, reinterpret_cast<void*>(function), function }
VoidFunctionListener(function, reg) ==
    Listener(NULL, FunctionToVoidPtr(function),
             Closure(NULL, function, TRUE), reg)

\* variant: the specialization stores no instance pointer
VoidMethodListenerNoOwner(instance, function, reg) ==
    Listener(NULL, MethodToVoidPtr(function),
             Closure(instance, function, TRUE), reg)

\* Event<>: { instance, *reinterpret_cast<void**>(&function),
\*            [instance, function]() { (instance->*function)(); } }
VoidMethodListener(instance, function, reg) ==
    Listener(InstanceToVoidPtr(instance), MethodToVoidPtr(function),
             Closure(instance, function, TRUE), reg)

----------------------------------------------------------------------------
(* Event<Types...> *)

\* void AddListener(void(*function)(Types...))
AddListenerFn(function) ==
    /\ cls = "Event" /\ pc = "idle" /\ nextReg <= MaxRegs
    /\ _listeners' = PushBack(_listeners, FunctionListener(function, nextReg))
    /\ Added(NULL, function, TRUE)

\* void AddListener(void(*function)())
AddListenerFnNoArgs(function) ==
    /\ cls = "Event" /\ pc = "idle" /\ nextReg <= MaxRegs
    /\ _listeners' = PushBack(_listeners,
                              NoArgsFunctionListener(function, nextReg))
    /\ Added(NULL, function, FALSE)

\* void RemoveListener(void(*function)(Types...))
RemoveListenerFn(function) ==
    /\ cls = "Event" /\ pc = "idle"
    /\ LET functionPtr == FunctionToVoidPtr(function)
       IN  _listeners' = EraseFunction(_listeners, functionPtr)
    /\ Removed("RemoveListener", NULL, function)

\* void RemoveListener(void(*function)())
RemoveListenerFnNoArgs(function) ==
    /\ cls = "Event" /\ pc = "idle"
    /\ LET functionPtr == FunctionToVoidPtr(function)
       IN  _listeners' = EraseFunction(_listeners, functionPtr)
    /\ Removed("RemoveListener", NULL, function)

\* template<T> void AddListener(T* instance, void(T::* function)(Types...))
AddListenerMethod(instance, function) ==
    /\ cls = "Event" /\ pc = "idle" /\ nextReg <= MaxRegs
    /\ _listeners' = PushBack(_listeners,
                              MethodListener(instance, function, nextReg))
    /\ Added(instance, function, TRUE)

\* template<T> void AddListener(T* instance, void(T::* function)())
AddListenerMethodNoArgs(instance, function) ==
    /\ cls = "Event" /\ pc = "idle" /\ nextReg <= MaxRegs
    /\ _listeners' = PushBack(_listeners,
                              NoArgsMethodListener(instance, function, nextReg))
    /\ Added(instance, function, FALSE)

\* template<T> void RemoveListener(T* instance, void(T::* function)(Types...))
RemoveListenerMethod(instance, function) ==
    /\ cls = "Event" /\ pc = "idle"
    /\ LET functionPtr == MethodToVoidPtr(function)
       IN  _listeners' = EraseMethod(_listeners, InstanceToVoidPtr(instance),
                                     functionPtr)
    /\ Removed("RemoveListener", instance, function)

\* template<T> void RemoveListener(T* instance, void(T::* function)())
RemoveListenerMethodNoArgs(instance, function) ==
    /\ cls = "Event" /\ pc = "idle"
    /\ LET functionPtr == MethodToVoidPtr(function)
       IN  _listeners' = EraseMethod(_listeners, InstanceToVoidPtr(instance),
                                     functionPtr)
    /\ Removed("RemoveListener", instance, function)

\* void RemoveAllListeners()
RemoveAllListeners ==
    /\ cls = "Event" /\ pc = "idle"
    /\ _listeners' = Clear(_listeners)
    /\ Removed("RemoveAllListeners", NULL, NULL)

----------------------------------------------------------------------------
(* Trigger: for (const auto& listener : _listeners) listener.callback(args...) *)

\* entering the range-for: begin() and end() are taken once
LoopBegin(a) ==
    /\ pc = "idle"
    /\ pc' = "Trigger"
    /\ it' = 1
    /\ endIt' = Len(_listeners) + 1
    /\ moved' = FALSE
    /\ args' = a
    /\ log' = <<>>
    /\ outcome' = "none"
    /\ atTrigger' = _listeners
    /\ UNCHANGED <<cls, _listeners, last, regs, pristine, nextReg>>

\* variant: a one-shot channel, the listener just served is erased
LoopCallReturnsOnce ==
    /\ pc = "Trigger" /\ it # endIt
    /\ log' = Append(log, Invoke(_listeners[it].callback, args))
    /\ _listeners' = SubSeq(_listeners, 1, it - 1)
                        \o SubSeq(_listeners, it + 1, Len(_listeners))
    /\ endIt' = endIt - 1
    /\ UNCHANGED <<cls, pc, it, moved, args, outcome, atTrigger,
                   last, regs, pristine, nextReg>>

\* variant: the iterator is not advanced
LoopCallReturnsStuck ==
    /\ pc = "Trigger" /\ it # endIt
    /\ log' = Append(log, Invoke(_listeners[it].callback, args))
    /\ UNCHANGED <<cls, _listeners, pc, it, endIt, moved, args, outcome,
                   atTrigger, last, regs, pristine, nextReg>>

\* it != end: the callback of *it is called and returns; ++it
LoopCallReturns ==
    /\ pc = "Trigger" /\ it # endIt
    /\ log' = Append(log, Invoke(_listeners[it].callback, args))
    /\ it' = it + 1
    /\ UNCHANGED <<cls, _listeners, pc, endIt, moved, args, outcome, atTrigger,
                   last, regs, pristine, nextReg>>

\* variant: the exception is caught inside the loop, which goes on
LoopCallCaught ==
    /\ pc = "Trigger" /\ it # endIt
    /\ log' = Append(log, Invoke(_listeners[it].callback, args))
    /\ it' = it + 1
    /\ outcome' = "threw"
    /\ UNCHANGED <<cls, _listeners, pc, endIt, moved, args, atTrigger,
                   last, regs, pristine, nextReg>>

\* it != end: the callback of *it is called and throws; nothing catches it,
\* the exception leaves Trigger
LoopCallThrows ==
    /\ pc = "Trigger" /\ it # endIt
    /\ log' = Append(log, Invoke(_listeners[it].callback, args))
    /\ pc' = "idle"
    /\ outcome' = "threw"
    /\ UNCHANGED <<cls, _listeners, it, endIt, moved, args, atTrigger,
                   last, regs, pristine, nextReg>>

\* it == end: Trigger returns
LoopEnd ==
    /\ pc = "Trigger" /\ it = endIt
    /\ pc' = "idle"
    /\ outcome' = "returned"
    /\ UNCHANGED <<cls, _listeners, it, endIt, moved, args, log, atTrigger,
                   last, regs, pristine, nextReg>>

\* void Trigger(Types... args) const
Trigger(a) == cls = "Event" /\ LoopBegin(a)
TriggerCallReturns == cls = "Event" /\ LoopCallReturns
TriggerCallThrows == cls = "Event" /\ LoopCallThrows
TriggerReturn == cls = "Event" /\ LoopEnd

----------------------------------------------------------------------------
(* Event<> *)

\* void AddListener(void(*function)())
VoidAddListenerFn(function) ==
    /\ cls = "Event<>" /\ pc = "idle" /\ nextReg <= MaxRegs
    /\ _listeners' = PushBack(_listeners,
                              VoidFunctionListener(function, nextReg))
    /\ Added(NULL, function, TRUE)

\* void RemoveListener(void(*function)())
VoidRemoveListenerFn(function) ==
    /\ cls = "Event<>" /\ pc = "idle"
    /\ LET functionPtr == FunctionToVoidPtr(function)
       IN  _listeners' = EraseFunction(_listeners, functionPtr)
    /\ Removed("RemoveListener", NULL, function)

\* template<T> void AddListener(T* instance, void(T::* function)())
VoidAddListenerMethod(instance, function) ==
    /\ cls = "Event<>" /\ pc = "idle" /\ nextReg <= MaxRegs
    /\ _listeners' = PushBack(_listeners,
                              VoidMethodListener(instance, function, nextReg))
    /\ Added(instance, function, TRUE)

\* template<T> void RemoveListener(T* instance, void(T::* function)())
VoidRemoveListenerMethod(instance, function) ==
    /\ cls = "Event<>" /\ pc = "idle"
    /\ LET functionPtr == MethodToVoidPtr(function)
       IN  _listeners' = EraseMethod(_listeners, InstanceToVoidPtr(instance),
                                     functionPtr)
    /\ Removed("RemoveListener", instance, function)

\* void RemoveAllListeners()
VoidRemoveAllListeners ==
    /\ cls = "Event<>" /\ pc = "idle"
    /\ _listeners' = Clear(_listeners)
    /\ Removed("RemoveAllListeners", NULL, NULL)

\* void Trigger() const
VoidTrigger == cls = "Event<>" /\ LoopBegin(NoArg)
VoidTriggerCallReturns == cls = "Event<>" /\ LoopCallReturns
VoidTriggerCallThrows == cls = "Event<>" /\ LoopCallThrows
VoidTriggerReturn == cls = "Event<>" /\ LoopEnd

----------------------------------------------------------------------------
(* Specification *)

Init ==
    /\ cls \in {"Event", "Event<>"}
    /\ _listeners = <<>>
    /\ pc = "idle"
    /\ it = 0
    /\ endIt = 0
    /\ moved = FALSE
    /\ args = NoArg
    /\ log = <<>>
    /\ outcome = "none"
    /\ atTrigger = <<>>
    /\ last = NoCall
    /\ regs = <<>>
    /\ pristine = TRUE
    /\ nextReg = 1

Next ==
    \/ \E f \in ExactFunctions : AddListenerFn(f)
    \/ \E f \in DiscardFunctions : AddListenerFnNoArgs(f)
    \/ \E f \in ExactFunctions : RemoveListenerFn(f)
    \/ \E f \in DiscardFunctions : RemoveListenerFnNoArgs(f)
    \/ \E o \in Instances : \E m \in ExactMethods \cap MethodsOf(o) : AddListenerMethod(o, m)
    \/ \E o \in Instances : \E m \in DiscardMethods \cap MethodsOf(o) : AddListenerMethodNoArgs(o, m)
    \/ \E o \in Instances : \E m \in ExactMethods \cap MethodsOf(o) : RemoveListenerMethod(o, m)
    \/ \E o \in Instances : \E m \in DiscardMethods \cap MethodsOf(o) : RemoveListenerMethodNoArgs(o, m)
    \/ RemoveAllListeners
    \/ \E a \in ArgValues : Trigger(a)
    \/ TriggerCallReturns
    \/ TriggerCallThrows
    \/ TriggerReturn
    \/ \E f \in DiscardFunctions : VoidAddListenerFn(f)
    \/ \E f \in DiscardFunctions : VoidRemoveListenerFn(f)
    \/ \E o \in Instances : \E m \in DiscardMethods \cap MethodsOf(o) : VoidAddListenerMethod(o, m)
    \/ \E o \in Instances : \E m \in DiscardMethods \cap MethodsOf(o) : VoidRemoveListenerMethod(o, m)
    \/ VoidRemoveAllListeners
    \/ VoidTrigger
    \/ VoidTriggerCallReturns
    \/ VoidTriggerCallThrows
    \/ VoidTriggerReturn

Spec == Init /\ [][Next]_vars

----------------------------------------------------------------------------
(* A channel that is filled and triggered, with callbacks that terminate *)

FillNext ==
    \/ \E f \in ExactFunctions : AddListenerFn(f)
    \/ \E f \in DiscardFunctions : AddListenerFnNoArgs(f)
    \/ \E o \in Instances : \E m \in ExactMethods \cap MethodsOf(o) : AddListenerMethod(o, m)
    \/ \E o \in Instances : \E m \in DiscardMethods \cap MethodsOf(o) : AddListenerMethodNoArgs(o, m)
    \/ \E a \in ArgValues : Trigger(a)
    \/ TriggerCallReturns
    \/ TriggerCallThrows
    \/ TriggerReturn
    \/ \E f \in DiscardFunctions : VoidAddListenerFn(f)
    \/ \E o \in Instances : \E m \in DiscardMethods \cap MethodsOf(o) : VoidAddListenerMethod(o, m)
    \/ VoidTrigger
    \/ VoidTriggerCallReturns
    \/ VoidTriggerCallThrows
    \/ VoidTriggerReturn

\* Trigger runs on the caller's thread and every callback it calls comes
\* back, by return or by exception: a loop step that can be taken is taken.
SpecTerminates ==
    /\ Init /\ [][FillNext]_vars
    /\ WF_vars(LoopCallReturns \/ LoopCallThrows)
    /\ WF_vars(LoopEnd)

----------------------------------------------------------------------------
(* Vocabulary of the properties *)

\* a Trigger call has begun since the last mutating call
Triggered == pc = "Trigger" \/ outcome # "none"

\* the call a callee receives when registration r is served by Trigger(a)
ExpectedCall(r, a) ==
    [instance |-> r.instance, function |-> r.function,
     arg |-> IF r.forward THEN a ELSE NoArg]

\* invocations of (instance, function) recorded in the log
Invocations(instance, function) ==
    {i \in 1..Len(log) : log[i].instance = instance /\ log[i].function = function}

\* registrations of (instance, function) made since the last removal call
RegistrationsOf(instance, function) ==
    {i \in 1..Len(regs) : regs[i].instance = instance /\ regs[i].function = function}

\* entries of ls that call (instance, function)
EntriesCalling(ls, instance, function) ==
    {i \in 1..Len(ls) : /\ ls[i].callback.instance = instance
                        /\ ls[i].callback.function = function}

\* entries of ls whose two identity fields are (ownerIdentity, callableIdentity)
EntriesKeyed(ls, ownerIdentity, callableIdentity) ==
    {i \in 1..Len(ls) : /\ ls[i].instancePtr = ownerIdentity
                        /\ ls[i].functionPtr = callableIdentity}

RemovedFunction == last.op = "RemoveListener" /\ last.instance = NULL
RemovedMethod == last.op = "RemoveListener" /\ last.instance # NULL

----------------------------------------------------------------------------
(* Properties *)

\* C1: after AddListener calls only (no removal since construction) and one
\* Trigger(a) that returned, the log is the list of registrations in the order
\* they were made, one invocation each; an exact-signature registration
\* received a, a discarding one received no argument.
C1_TriggerServesRegistrations ==
    (pristine /\ outcome = "returned") =>
        /\ Len(log) = Len(regs)
        /\ \A i \in 1..Len(regs) : log[i] = ExpectedCall(regs[i], args)

C1_Witness ==
    /\ cls = "Event" /\ pristine /\ outcome = "returned" /\ args = <<42>>
    /\ Len(regs) = 3
    /\ regs[1].forward /\ ~regs[2].forward /\ regs[3].instance # NULL

\* C2: once RemoveListener(f) was called for a free function f, a Trigger
\* that follows invokes f zero times, however many entries f had.
C2_RemovedFunctionNotInvoked ==
    (RemovedFunction /\ Triggered) => Invocations(NULL, last.function) = {}

C2_Witness ==
    /\ RemovedFunction /\ outcome = "returned"
    /\ Cardinality(EntriesCalling(last.before, NULL, last.function)) >= 2
    /\ Len(log) >= 1

\* C3: RemoveListener(owner, m) leaves every entry alone whose ownerIdentity
\* differs from owner or whose callableIdentity differs from m's; an entry of
\* the same method on another owner is still invoked by the next Trigger.
C3_RemoveMethodKeepsOthers ==
    RemovedMethod =>
        LET owner == InstanceToVoidPtr(last.instance)
            m == MethodToVoidPtr(last.function)
            Other(l) == l.instancePtr # owner \/ l.functionPtr # m
        IN  /\ SelectSeq(_listeners, Other) = SelectSeq(last.before, Other)
            /\ outcome = "returned" =>
                 \A i \in 1..Len(last.before) :
                    Other(last.before[i]) =>
                       Invocations(last.before[i].callback.instance,
                                   last.before[i].callback.function) # {}

C3_Witness ==
    /\ RemovedMethod /\ outcome = "returned"
    /\ \E o \in Instances \ {last.instance} :
          /\ EntriesCalling(last.before, o, last.function) # {}
          /\ Invocations(o, last.function) # {}
    /\ EntriesCalling(last.before, last.instance, last.function) # {}

\* C4: one RemoveListener(owner, method) call leaves no entry keyed
\* (owner, method), however many there were, and a Trigger that follows
\* invokes owner.method zero times.
C4_RemoveMethodRemovesAll ==
    RemovedMethod =>
        /\ EntriesKeyed(_listeners, InstanceToVoidPtr(last.instance),
                        MethodToVoidPtr(last.function)) = {}
        /\ Triggered => Invocations(last.instance, last.function) = {}

C4_Witness ==
    /\ RemovedMethod /\ outcome = "returned"
    /\ Cardinality(EntriesCalling(last.before, last.instance, last.function)) >= 2
    /\ Len(log) >= 1

\* C5: AddListener does not deduplicate: k registrations of one
\* (owner, callable) with no removal call in between are k entries, and when
\* every entry present was registered that way a Trigger that returned
\* invoked the callable k times.
C5_NoDeduplication ==
    \A r \in {regs[i] : i \in 1..Len(regs)} :
        LET k == Cardinality(RegistrationsOf(r.instance, r.function))
            fresh == SelectSeq(_listeners, LAMBDA l : l.reg >= nextReg - Len(regs))
        IN  /\ Cardinality(EntriesCalling(fresh, r.instance, r.function)) = k
            /\ (outcome = "returned" /\ Len(regs) = Len(_listeners)) =>
                   Cardinality(Invocations(r.instance, r.function)) = k

C5_Witness ==
    /\ outcome = "returned"
    /\ \E r \in {regs[i] : i \in 1..Len(regs)} :
          /\ r.instance # NULL
          /\ Cardinality(RegistrationsOf(r.instance, r.function)) >= 2
          /\ Cardinality(Invocations(r.instance, r.function)) >= 2

\* C6: RemoveListener(function) removes exactly the plain-function entries
\* (ownerIdentity none) whose callableIdentity is function's; every method
\* entry stays, also one whose stored callableIdentity equals function's.
C6_RemoveFunctionOnlyPlain ==
    (cls = "Event" /\ RemovedFunction) =>
        LET f == FunctionToVoidPtr(last.function)
            Kept(l) == ~(l.instancePtr = NULL /\ l.functionPtr = f)
        IN  _listeners = SelectSeq(last.before, Kept)

\* C7: when the callback of listener i throws, Trigger is over (the fault is
\* with the caller), listeners 1..i-1 were each invoked once before it, in
\* order, listener i was the last one invoked, and _listeners is what it was
\* when Trigger began.
C7_FaultAbortsTrigger ==
    outcome = "threw" =>
        /\ pc = "idle"
        /\ it \in 1..Len(_listeners)
        /\ Len(log) = it
        /\ \A j \in 1..it :
              /\ log[j].instance = atTrigger[j].callback.instance
              /\ log[j].function = atTrigger[j].callback.function
        /\ _listeners = atTrigger

C7_Witness ==
    /\ outcome = "threw"
    /\ it = 2 /\ Len(_listeners) = 3

\* C8: the entries are always in the order they were registered, and a
\* RemoveListener call leaves only entries that were there before it.
C8_OrderIsRegistrationOrder ==
    /\ \A i, j \in 1..Len(_listeners) :
          i < j => _listeners[i].reg < _listeners[j].reg
    /\ last.op = "RemoveListener" =>
          \A i \in 1..Len(_listeners) :
             \E j \in 1..Len(last.before) : last.before[j] = _listeners[i]

C8_Witness ==
    /\ last.op = "RemoveListener"
    /\ Len(last.before) = 3 /\ Len(_listeners) = 2
    /\ _listeners[1] = last.before[2] /\ _listeners[2] = last.before[3]

\* C9: a RemoveListener call whose key (none, function) or (owner, method)
\* is the key of no entry leaves _listeners as it was.
C9_RemoveMissIsNoOp ==
    (cls = "Event" /\ last.op = "RemoveListener") =>
        LET owner == IF last.instance = NULL THEN NULL
                     ELSE InstanceToVoidPtr(last.instance)
            callable == IF last.instance = NULL
                        THEN FunctionToVoidPtr(last.function)
                        ELSE MethodToVoidPtr(last.function)
        IN  EntriesKeyed(last.before, owner, callable) = {} =>
                _listeners = last.before

\* C10: after RemoveAllListeners the sequence is empty, whatever it was
\* before (empty included), and a Trigger that follows invokes nothing.
C10_RemoveAllEmpties ==
    last.op = "RemoveAllListeners" =>
        /\ _listeners = <<>>
        /\ Triggered => (log = <<>> /\ outcome # "threw")

C10_Witness ==
    /\ last.op = "RemoveAllListeners"
    /\ Len(last.before) >= 2
    /\ outcome = "returned"

\* C11: Trigger does not change the sequence: while it runs and after it
\* ended, by return or by a fault, _listeners is what it was when Trigger
\* began; the callees it invokes are those of the sequence, in its order, so
\* a Trigger begun right after another one serves the same sequence.
C11_TriggerKeepsListeners ==
    /\ [](Triggered =>
            /\ _listeners = atTrigger
            /\ Len(log) <= Len(_listeners)
            /\ \A j \in 1..Len(log) :
                  /\ log[j].instance = _listeners[j].callback.instance
                  /\ log[j].function = _listeners[j].callback.function
            /\ outcome = "returned" => Len(log) = Len(_listeners))
    /\ [][(outcome # "none" /\ pc' = "Trigger" /\ pc = "idle") =>
             (atTrigger' = atTrigger /\ _listeners' = _listeners)]_vars

C11_Witness ==
    /\ outcome = "threw" /\ it = 2
    /\ Len(_listeners) = 3 /\ _listeners = atTrigger

C13_AddAppendsOne ==
    last.op = "AddListener" =>
        /\ Len(_listeners) = Len(last.before) + 1
        /\ SubSeq(_listeners, 1, Len(last.before)) = last.before
        /\ LET new == _listeners[Len(_listeners)]
           IN  /\ new.instancePtr = last.instance
               /\ new.functionPtr =
                     IF last.instance = NULL
                     THEN FunctionAddress(last.function)
                     ELSE MemberPointer(last.function)[1]
               /\ new.callback.instance = last.instance
               /\ new.callback.function = last.function

C13_Witness ==
    /\ last.op = "AddListener" /\ last.instance # NULL
    /\ Len(last.before) = 2
    /\ last.before[1].instancePtr = NULL

\* The entries Event<Types...> holds after the calls that gave Event<> the
\* entries ls, each made through the no-argument overload for the same callee
GenericTwin(ls) ==
    [i \in 1..Len(ls) |->
        IF ls[i].callback.instance = NULL
        THEN NoArgsFunctionListener(ls[i].callback.function, ls[i].reg)
        ELSE NoArgsMethodListener(ls[i].callback.instance,
                                  ls[i].callback.function, ls[i].reg)]

\* C14: Event<> and Event<Types...> restricted to its no-argument overloads
\* stay in step.  With the generic channel holding GenericTwin of what Event<>
\* holds, every call on Event<> and the same call on the generic channel
\* give sequences that are again twins, with the same two identity fields at
\* every position, and every invocation Event<>::Trigger() makes is the one
\* the generic Trigger(a) makes at that position.  In particular F1, F2,
\* Trigger() calls F1() then F2(), and after RemoveAllListeners nothing.
C14_VoidMatchesGeneric ==
    cls = "Event<>" =>
        LET twin == GenericTwin(_listeners)
            before == GenericTwin(last.before)
        IN  /\ \A i \in 1..Len(_listeners) :
                  /\ twin[i].instancePtr = _listeners[i].instancePtr
                  /\ twin[i].functionPtr = _listeners[i].functionPtr
            /\ (last.op = "AddListener" /\ last.instance = NULL) =>
                  twin = PushBack(before,
                            NoArgsFunctionListener(last.function, nextReg - 1))
            /\ (last.op = "AddListener" /\ last.instance # NULL) =>
                  twin = PushBack(before,
                            NoArgsMethodListener(last.instance, last.function,
                                                 nextReg - 1))
            /\ RemovedFunction =>
                  twin = EraseFunction(before, FunctionToVoidPtr(last.function))
            /\ RemovedMethod =>
                  twin = EraseMethod(before, InstanceToVoidPtr(last.instance),
                                     MethodToVoidPtr(last.function))
            /\ last.op = "RemoveAllListeners" => twin = Clear(before)
            /\ Triggered =>
                  /\ Len(log) <= Len(twin)
                  /\ \A j \in 1..Len(log) : \A a \in ArgValues :
                        log[j] = Invoke(twin[j].callback, a)
                  /\ outcome = "returned" => Len(log) = Len(twin)
            /\ (/\ pristine /\ outcome = "returned" /\ Len(regs) = 2
                /\ regs[1].instance = NULL /\ regs[2].instance = NULL) =>
                  log = <<[instance |-> NULL, function |-> regs[1].function,
                           arg |-> NoArg],
                          [instance |-> NULL, function |-> regs[2].function,
                           arg |-> NoArg]>>
            /\ (last.op = "RemoveAllListeners" /\ Triggered) => log = <<>>

C14_Witness ==
    /\ cls = "Event<>" /\ last.op = "RemoveAllListeners"
    /\ Len(last.before) = 3
    /\ last.before[1].callback.function = "LogA"
    /\ last.before[2].callback.function = "LogB"
    /\ last.before[3].callback.instance = "objA"
    /\ outcome = "returned"

\* C15: the stored callableIdentity tells methods apart: RemoveListener(owner,
\* m1) leaves every entry that calls another method m2 of the same owner.
C15_MethodTokenUnique ==
    (cls = "Event" /\ RemovedMethod) =>
        \A i \in 1..Len(last.before) :
            (/\ last.before[i].callback.instance = last.instance
             /\ last.before[i].callback.function # last.function) =>
                \E j \in 1..Len(_listeners) : _listeners[j] = last.before[i]

\* C18: RemoveListener(owner, method), owner not null, removes no
\* plain-function entry, whatever its callableIdentity: the plain-function
\* entries and their order are what they were before the call.
C18_RemoveMethodKeepsFunctions ==
    RemovedMethod =>
        LET Plain(l) == l.instancePtr = NULL
        IN  SelectSeq(_listeners, Plain) = SelectSeq(last.before, Plain)

C18_Witness ==
    /\ RemovedMethod /\ last.function = "OnPing"
    /\ Len(last.before) = 3 /\ Len(_listeners) = 2
    /\ _listeners[1].callback = Closure(NULL, "LogB", FALSE)
    /\ _listeners[2].instancePtr = NULL
    /\ last.before[2].callback.function = "OnPing"

\* C19: a listener that is removed and added again goes to the end.  An
\* AddListener(f) call made right after the calls AddListener(f),
\* AddListener(g), RemoveListener(f) gives the sequence [g, f], and a Trigger
\* that follows and returns invoked g, then f.
C19_ReaddedGoesLast ==
    /\ [][(/\ RemovedFunction /\ pc = "idle" /\ nextReg = 3
           /\ Len(last.before) = 2 /\ Len(_listeners) = 1
           /\ last.before[1].callback.function = last.function
           /\ last.before[1].callback.instance = NULL
           /\ pc' = "idle" /\ last'.op = "AddListener"
           /\ last'.instance = NULL /\ last'.function = last.function) =>
              /\ Len(_listeners') = 2
              /\ _listeners'[1] = last.before[2]
              /\ _listeners'[2].callback.function = last.function
              /\ _listeners'[2].callback.instance = NULL]_vars
    /\ []((/\ last.op = "AddListener" /\ outcome = "returned"
           /\ Len(last.before) = 1 /\ nextReg = 4
           /\ last.before[1].reg = 2) =>
              (/\ Len(log) = 2
               /\ log[1].function = last.before[1].callback.function
               /\ log[1].instance = last.before[1].callback.instance
               /\ log[2].function = last.function
               /\ log[2].instance = last.instance))

C19_Witness ==
    /\ cls = "Event" /\ last.op = "AddListener" /\ last.function = "OnValue"
    /\ ~pristine /\ nextReg = 4 /\ Len(regs) = 1
    /\ Len(_listeners) = 2
    /\ _listeners[1].callback.function = "LogA" /\ _listeners[1].reg = 2
    /\ _listeners[2].callback.function = "OnValue" /\ _listeners[2].reg = 3
    /\ outcome = "returned"
    /\ log[1].function = "LogA" /\ log[2].function = "OnValue"

----------------------------------------------------------------------------
(* Callbacks that call back into the channel that is being triggered       *)
(*                                                                         *)
(* The range-for of Trigger holds a position and an end taken from the     *)
(* vector when the loop began.  A callback that mutates _listeners changes *)
(* the vector under them; nothing in Trigger or in the mutating members    *)
(* looks at the other.  The calls a callback makes are not recorded in the *)
(* history variables.                                                      *)

\* the position of the running range-for no longer designates an element:
\* the storage was reallocated, or the element was erased or cleared
Dangling ==
    /\ pc = "Trigger" /\ it # endIt
    /\ (moved \/ it > Len(_listeners))

\* the end of a call of the callback of *it that changed the vector to ls
CallbackReturnsAfter(ls, realloc) ==
    /\ cls = "Event" /\ pc = "Trigger" /\ it # endIt /\ ~Dangling
    /\ log' = Append(log, Invoke(_listeners[it].callback, args))
    /\ _listeners' = ls
    /\ moved' = realloc
    /\ it' = it + 1
    /\ UNCHANGED <<cls, pc, endIt, args, outcome, atTrigger,
                   last, regs, pristine>>

\* variant: clearing re-bounds the running loop
CallbackRemovesAllGuarded ==
    /\ cls = "Event" /\ pc = "Trigger" /\ it # endIt /\ ~Dangling
    /\ log' = Append(log, Invoke(_listeners[it].callback, args))
    /\ _listeners' = Clear(_listeners)
    /\ it' = 1 /\ endIt' = 1
    /\ UNCHANGED <<cls, pc, moved, args, outcome, atTrigger,
                   last, regs, pristine, nextReg>>

\* the callback calls RemoveAllListeners()
CallbackRemovesAll ==
    /\ CallbackReturnsAfter(Clear(_listeners), moved)
    /\ UNCHANGED nextReg

\* the callback calls RemoveListener(function)
CallbackRemovesFunction(function) ==
    /\ CallbackReturnsAfter(
           EraseFunction(_listeners, FunctionToVoidPtr(function)), moved)
    /\ UNCHANGED nextReg

\* the callback calls RemoveListener(instance, function)
CallbackRemovesMethod(instance, function) ==
    /\ CallbackReturnsAfter(
           EraseMethod(_listeners, InstanceToVoidPtr(instance),
                       MethodToVoidPtr(function)), moved)
    /\ UNCHANGED nextReg

\* the callback calls AddListener(function); push_back reallocates when the
\* capacity is used up, which depends on the library's growth policy
CallbackAdds(function, realloc) ==
    /\ nextReg <= MaxRegs
    /\ CallbackReturnsAfter(
           PushBack(_listeners, FunctionListener(function, nextReg)),
           moved \/ realloc)
    /\ nextReg' = nextReg + 1

\* the loop steps of Trigger while its position designates an element
ReentrantCallReturns == ~Dangling /\ TriggerCallReturns
ReentrantCallThrows == ~Dangling /\ TriggerCallThrows

\* the range-for dereferences or increments a position that designates no
\* element: the behaviour of the program is undefined from here on
LoopDerefDangling ==
    /\ Dangling
    /\ pc' = "undefined"
    /\ UNCHANGED <<cls, _listeners, it, endIt, moved, args, log, outcome,
                   atTrigger, last, regs, pristine, nextReg>>

ReentrantInit == Init /\ cls = "Event"

ReentrantNext ==
    \/ \E f \in ExactFunctions : AddListenerFn(f)
    \/ \E f \in DiscardFunctions : AddListenerFnNoArgs(f)
    \/ \E o \in Instances : \E m \in ExactMethods \cap MethodsOf(o) : AddListenerMethod(o, m)
    \/ \E o \in Instances : \E m \in DiscardMethods \cap MethodsOf(o) : AddListenerMethodNoArgs(o, m)
    \/ Trigger(<<42>>)
    \/ ReentrantCallReturns
    \/ ReentrantCallThrows
    \/ TriggerReturn
    \/ CallbackRemovesAll
    \/ \E f \in Functions : CallbackRemovesFunction(f)
    \/ \E o \in Instances : \E m \in MethodsOf(o) : CallbackRemovesMethod(o, m)
    \/ \E f \in ExactFunctions : \E r \in BOOLEAN : CallbackAdds(f, r)
    \/ LoopDerefDangling

SpecReentrant == ReentrantInit /\ [][ReentrantNext]_vars

\* C16: nothing guards the running Trigger against a callback that mutates
\* the channel: such a call leaves the loop running with the end it took at
\* the start and only advances the position; once the position designates
\* no element, the only step left is the undefined dereference.
C16_NoMutationGuard ==
    /\ [][(pc = "Trigger" /\ _listeners' # _listeners) =>
             (pc' = "Trigger" /\ endIt' = endIt /\ it' = it + 1)]_vars
    /\ [][Dangling => pc' = "undefined"]_vars
    /\ [](pc = "undefined" => (it # endIt /\ (moved \/ it > Len(_listeners))))

C16_Witness ==
    /\ Dangling
    /\ Len(atTrigger) = 3 /\ _listeners = <<>>
    /\ it = 2 /\ endIt = 4 /\ Len(log) = 1 /\ ~moved

\* C17: a Trigger whose callbacks terminate and leave the channel alone
\* ends: the position only advances, the k-th invocation is that of the
\* k-th listener, a Trigger that returned made exactly n invocations, one
\* that threw stopped at the throwing listener, and a running Trigger always
\* comes to an end.
C17_TriggerTerminates ==
    /\ [](Triggered =>
            /\ it \in 1..endIt /\ endIt = Len(atTrigger) + 1
            /\ \A j \in 1..Len(log) :
                  /\ log[j].instance = atTrigger[j].callback.instance
                  /\ log[j].function = atTrigger[j].callback.function
            /\ pc = "Trigger" => Len(log) = it - 1
            /\ outcome = "returned" =>
                  (it = endIt /\ Len(log) = Len(atTrigger))
            /\ outcome = "threw" => (it < endIt /\ Len(log) = it))
    /\ [][(pc = "Trigger" /\ pc' = "Trigger") =>
             (it' = it + 1 /\ endIt' = endIt)]_vars
    /\ (pc = "Trigger") ~> (pc = "idle" /\ outcome \in {"returned", "threw"})

C17_Witness ==
    /\ outcome = "returned" /\ Len(log) = 3 /\ Len(_listeners) = 3
    /\ it = endIt

====
